---------------------------- MODULE Spec2Model ----------------------------
(***************************************************************************)
(* Model of ruspiro-loader's MMU maintenance (src/src/mmu.rs).             *)
(*                                                                         *)
(* Every core of the machine runs a sequence of calls of initialize_mmu    *)
(* (with its own core id) and disable_mmu.  Each core owns its EL2 system  *)
(* registers; the translation tables of the static MMU_CFG are shared.     *)
(* One action is one store, register write, instruction or for loop of the *)
(* source.                                                                 *)
(*                                                                         *)
(* A u64 is modelled as the set of its one-bits (a subset of 0..63), so    *)
(* that bit 63 and the bitwise-or of the source are exact.                 *)
(***************************************************************************)
EXTENDS Integers, Sequences, FiniteSets

(***************************************************************************)
(* Bounds of the model.                                                    *)
(***************************************************************************)
\* cores are numbered 0..MaxCore
MaxCore == 1
\* number of calls (initialize_mmu or disable_mmu) made in one behaviour
MaxCalls == 3

Cores == 0..MaxCore

(***************************************************************************)
(* u64 values as sets of bit positions.                                    *)
(***************************************************************************)
\* the one-bits of the natural number n, its bit 0 counted as bit b
RECURSIVE BitsFrom(_, _)
BitsFrom(n, b) ==
    IF n = 0
    THEN {}
    ELSE (IF n % 2 = 1 THEN {b} ELSE {}) \cup BitsFrom(n \div 2, b + 1)

\* the u64 holding the natural number n
U64(n) == BitsFrom(n, 0)

\* a | b
BitOr(a, b) == a \cup b

\* 0x1 << 63
Bit63 == {63}

\* bits hi..lo of v, shifted down to bit 0
Field(v, hi, lo) == { b - lo : b \in v \cap (lo..hi) }

\* bits hi..lo of v, left in place (v masked)
Masked(v, hi, lo) == v \cap (lo..hi)

(***************************************************************************)
(* The static MMU_CFG: its layout in memory.                               *)
(***************************************************************************)
\* #[repr(align(4096))]
PageSize == 4096
\* size of a u64 in bytes
EntrySize == 8
\* ttlb_lvl0: [u64; 512]
Lvl0Len == 512
\* ttlb_lvl1: [u64; 513]
Lvl1Len == 513

\* the addresses the linker may give MMU_CFG: 4096-aligned
MMU_CFG_Addresses == { PageSize * k : k \in {128, 1027} }

VARIABLES
    base,           \* address of MMU_CFG
    ttlb_lvl0,      \* MMU_CFG.ttlb_lvl0
    ttlb_lvl1,      \* MMU_CFG.ttlb_lvl1
    sctlr_el2,      \* per core: SCTLR_EL2
    mair_el2,       \* per core: MAIR_EL2
    ttbr0_el2,      \* per core: TTBR0_EL2
    tcr_el2,        \* per core: TCR_EL2
    hcr_el2,        \* per core: HCR_EL2
    pc,             \* per core: the next instruction
    ret,            \* per core: where the running disable_mmu returns to
    calls,          \* number of calls made so far
    log,            \* per core: the steps of its current (or last) call
    history,        \* per core: the calls made from outside, in order
    after_first,    \* the tables as the first initialize_mmu(0) left them
    builds_started, \* number of setup_page_tables executions begun
    builds_done     \* number of setup_page_tables executions completed

tables == <<ttlb_lvl0, ttlb_lvl1>>
regs == <<sctlr_el2, mair_el2, ttbr0_el2, tcr_el2, hcr_el2>>
ghost == <<log, history, after_first, builds_started, builds_done>>
vars == <<base, ttlb_lvl0, ttlb_lvl1, sctlr_el2, mair_el2, ttbr0_el2, tcr_el2,
          hcr_el2, pc, ret, calls, log, history, after_first,
          builds_started, builds_done>>

\* &MMU_CFG.ttlb_lvl0[k] as u64
AddrLvl0(k) == base + EntrySize * k
\* mutant: the index is not scaled by the size of an entry
AddrLvl1_Unscaled(k) == base + EntrySize * Lvl0Len + k

\* &MMU_CFG.ttlb_lvl1[k] as u64
AddrLvl1(k) == base + EntrySize * Lvl0Len + EntrySize * k

(***************************************************************************)
(* Register values.  A register write replaces the whole register by the   *)
(* or of the given fields; a field that is not given is written as zero,   *)
(* which is the DISABLE encoding of the SCTLR_EL2 bits.                    *)
(***************************************************************************)
SctlrFields == {"M", "A", "C", "SA", "I"}

SctlrValue(given) ==
    [f \in SctlrFields |-> IF f \in DOMAIN given THEN given[f] ELSE "DISABLE"]

\* mutant: the disable write leaves the M bit set
SctlrDisableValue_KeepsM ==
    SctlrValue([M |-> "ENABLE", C |-> "DISABLE", I |-> "DISABLE"])

\* sctlr_el2::M::DISABLE | sctlr_el2::C::DISABLE | sctlr_el2::I::DISABLE
SctlrDisableValue ==
    SctlrValue([M |-> "DISABLE", C |-> "DISABLE", I |-> "DISABLE"])

\* mutant: the enable write turns the instruction cache on as well
SctlrEnableValue_ICacheOn ==
    SctlrValue([M |-> "ENABLE", A |-> "DISABLE", C |-> "ENABLE",
                SA |-> "DISABLE", I |-> "ENABLE"])

\* M::ENABLE | A::DISABLE | C::ENABLE | SA::DISABLE | I::DISABLE
SctlrEnableValue ==
    SctlrValue([M |-> "ENABLE", A |-> "DISABLE", C |-> "ENABLE",
                SA |-> "DISABLE", I |-> "DISABLE"])

\* mutant: the non-cacheable and the normal profile have changed places
MairValue_NormAt3 ==
    [k \in 0..7 |-> CASE k = 0 -> "NGNRNE"
                      [] k = 1 -> "NGNRE"
                      [] k = 2 -> "GRE"
                      [] k = 3 -> "NORM"
                      [] k = 4 -> "NC"
                      [] OTHER -> "ZERO"]

\* MAIR0::NGNRNE | MAIR1::NGNRE | MAIR2::GRE | MAIR3::NC | MAIR4::NORM:
\* attribute index |-> profile
MairValue ==
    [k \in 0..7 |-> CASE k = 0 -> "NGNRNE"
                      [] k = 1 -> "NGNRE"
                      [] k = 2 -> "GRE"
                      [] k = 3 -> "NC"
                      [] k = 4 -> "NORM"
                      [] OTHER -> "ZERO"]

\* ttbr0_el2::baddr::with_value(ttlb_base)
Ttbr0Value(ttlb_base) == [baddr |-> ttlb_base]

\* T0SZ 25 | IRGN0::NM_IWB_RA_WA | ORGN0::NM_OWB_RA_WA | SH0::IS | TG0::_4KB
\* | PS::_32BITS | TBI::IGNORE
TcrValue ==
    [T0SZ |-> 25, IRGN0 |-> "NM_IWB_RA_WA", ORGN0 |-> "NM_OWB_RA_WA",
     SH0 |-> "IS", TG0 |-> "_4KB", PS |-> "_32BITS", TBI |-> "IGNORE"]

\* hcr_el2::DC::DISABLE | hcr_el2::VM::DISABLE
HcrValue == [DC |-> "DISABLE", VM |-> "DISABLE"]

(***************************************************************************)
(* What the registers may hold before the first call on a core: the reset  *)
(* state, or translation and caches left on by an earlier boot stage.      *)
(***************************************************************************)
SctlrAtEntry ==
    { SctlrValue([M |-> "DISABLE"]),
      SctlrValue([M |-> "ENABLE", C |-> "ENABLE", I |-> "ENABLE"]) }

MairAtEntry == [k \in 0..7 |-> "UNKNOWN"]
Ttbr0AtEntry == [baddr |-> 0]
TcrAtEntry ==
    [T0SZ |-> 0, IRGN0 |-> "UNKNOWN", ORGN0 |-> "UNKNOWN", SH0 |-> "UNKNOWN",
     TG0 |-> "UNKNOWN", PS |-> "UNKNOWN", TBI |-> "UNKNOWN"]
HcrAtEntry == [DC |-> "UNKNOWN", VM |-> "UNKNOWN"]

(***************************************************************************)
(* The descriptors setup_page_tables stores.                               *)
(***************************************************************************)
\* 0x20_0000: the memory one level 1 entry covers
BlockSize == 2097152
\* 0x710: AF = 1 << 10, SH = 3 << 8, MAIR index = 4 << 2
NormalAttributes == 1808
\* 0x400: AF = 1 << 10, SH = 0 << 8, MAIR index = 0 << 2
DeviceAttributes == 1024
\* for i in 0..504
NormalEnd == 504
\* for i in 504..513
DeviceEnd == 513
\* &MMU_CFG.ttlb_lvl1[512]
SecondTableIndex == 512

\* mutant: the memory attributes of a normal block lack the MAIR index
NormalBlock_NoAttrIndex(k) == BitOr(BitOr(U64(k * BlockSize), U64(1792)), U64(1))

\* mutant: a device block gets the attributes of normal memory
DeviceBlock_NormalAttributes(k) ==
    BitOr(BitOr(U64(k * BlockSize), U64(NormalAttributes)), U64(1))

\* 0x1 << 63 | (level1_addr as u64) | 0b11
TableDescriptor(level1_addr) == BitOr(BitOr(Bit63, U64(level1_addr)), U64(3))

\* (i as u64 * 0x20_0000) | 0x710 | 0b01
NormalBlock(k) == BitOr(BitOr(U64(k * BlockSize), U64(NormalAttributes)), U64(1))

\* (i as u64 * 0x20_0000) | 0x400 | 0b01
DeviceBlock(k) == BitOr(BitOr(U64(k * BlockSize), U64(DeviceAttributes)), U64(1))

\* what the iterations of for i in 0..504 store, by index
NormalStores == [k \in 0..(NormalEnd - 1) |-> NormalBlock(k)]

\* mutant: the second loop starts one entry late
DeviceStores_Late == [k \in (NormalEnd + 1)..(DeviceEnd - 1) |-> DeviceBlock(k)]

\* what the iterations of for i in 504..513 store, by index
DeviceStores == [k \in NormalEnd..(DeviceEnd - 1) |-> DeviceBlock(k)]

\* mutant: the loops store with ^= instead of =
AfterStores_Xor(t, stores) ==
    [k \in DOMAIN t |->
        IF k \in DOMAIN stores
        THEN (t[k] \ stores[k]) \cup (stores[k] \ t[k])
        ELSE t[k]]

\* the table t after a loop has made its stores
AfterStores(t, stores) ==
    [k \in DOMAIN t |-> IF k \in DOMAIN stores THEN stores[k] ELSE t[k]]

\* let level1_addr_1 = &MMU_CFG.ttlb_lvl1[0] as *const u64
level1_addr_1 == AddrLvl1(0)
\* mutant: the second level 0 entry points at the first level 1 entry again
level1_addr_2_first == AddrLvl1(0)

\* let level1_addr_2 = &MMU_CFG.ttlb_lvl1[512] as *const u64
level1_addr_2 == AddrLvl1(SecondTableIndex)

(***************************************************************************)
(* Initial state: MMU_CFG is zeroed, no core has called anything.          *)
(***************************************************************************)
Init ==
    /\ base \in MMU_CFG_Addresses
    /\ ttlb_lvl0 = [k \in 0..(Lvl0Len - 1) |-> U64(0)]
    /\ ttlb_lvl1 = [k \in 0..(Lvl1Len - 1) |-> U64(0)]
    /\ sctlr_el2 \in [Cores -> SctlrAtEntry]
    /\ mair_el2 = [c \in Cores |-> MairAtEntry]
    /\ ttbr0_el2 = [c \in Cores |-> Ttbr0AtEntry]
    /\ tcr_el2 = [c \in Cores |-> TcrAtEntry]
    /\ hcr_el2 = [c \in Cores |-> HcrAtEntry]
    /\ pc = [c \in Cores |-> "idle"]
    /\ ret = [c \in Cores |-> "caller"]
    /\ calls = 0
    /\ log = [c \in Cores |-> <<>>]
    /\ history = [c \in Cores |-> <<>>]
    /\ after_first = <<>>
    /\ builds_started = 0
    /\ builds_done = 0

\* the function core c called last from outside
last_call(c) == IF history[c] = <<>> THEN "none" ELSE history[c][Len(history[c])]

Goto(c, p) == pc' = [pc EXCEPT ![c] = p]
Logged(c, e) == log' = [log EXCEPT ![c] = Append(@, e)]

\* the `core` argument: the boot code passes the id of the executing core
CoreArg(c) == c

\* mutant: the tables are set up on every core
IsMainCore_Always(core) == core >= 0

\* mutant: the tables are set up on core 1 instead of core 0
IsMainCore_One(core) == core = 1

\* if core == 0
IsMainCore(core) == core = 0

(***************************************************************************)
(* The calls made by the boot code of core c.                              *)
(***************************************************************************)
\* initialize_mmu(core) is entered; its first statement calls disable_mmu()
call_initialize_mmu(c) ==
    /\ pc[c] = "idle"
    /\ calls < MaxCalls
    /\ calls' = calls + 1
    /\ Goto(c, "disable_sctlr")
    /\ ret' = [ret EXCEPT ![c] = "initialize_mmu"]
    /\ log' = [log EXCEPT ![c] = <<>>]
    /\ history' = [history EXCEPT ![c] = Append(@, "initialize_mmu")]
    /\ UNCHANGED <<base, tables, regs, after_first, builds_started, builds_done>>

\* disable_mmu() is entered from outside
call_disable_mmu(c) ==
    /\ pc[c] = "idle"
    /\ calls < MaxCalls
    /\ calls' = calls + 1
    /\ Goto(c, "disable_sctlr")
    /\ ret' = [ret EXCEPT ![c] = "caller"]
    /\ log' = [log EXCEPT ![c] = <<>>]
    /\ history' = [history EXCEPT ![c] = Append(@, "disable_mmu")]
    /\ UNCHANGED <<base, tables, regs, after_first, builds_started, builds_done>>

(***************************************************************************)
(* disable_mmu                                                             *)
(***************************************************************************)
\* mutant: the write turns off translation only and keeps the other bits
disable_mmu_sctlr_only_M(c) ==
    /\ pc[c] = "disable_sctlr"
    /\ sctlr_el2' = [sctlr_el2 EXCEPT ![c] = [@ EXCEPT !.M = "DISABLE"]]
    /\ Logged(c, <<"sctlr_el2", "M", SctlrDisableValue.M>>)
    /\ Goto(c, "disable_nop1")
    /\ UNCHANGED <<base, tables, mair_el2, ttbr0_el2, tcr_el2, hcr_el2, ret,
                   calls, history, after_first, builds_started, builds_done>>

\* mutant: the write flips the A bit of the register instead of giving it
disable_mmu_sctlr_flips_A(c) ==
    /\ pc[c] = "disable_sctlr"
    /\ sctlr_el2' =
          [sctlr_el2 EXCEPT ![c] =
              [SctlrDisableValue EXCEPT
                  !.A = IF sctlr_el2[c].A = "ENABLE" THEN "DISABLE" ELSE "ENABLE"]]
    /\ Logged(c, <<"sctlr_el2", "M", SctlrDisableValue.M>>)
    /\ Goto(c, "disable_nop1")
    /\ UNCHANGED <<base, tables, mair_el2, ttbr0_el2, tcr_el2, hcr_el2, ret,
                   calls, history, after_first, builds_started, builds_done>>

\* sctlr_el2::write(M::DISABLE | C::DISABLE | I::DISABLE)
disable_mmu_sctlr(c) ==
    /\ pc[c] = "disable_sctlr"
    /\ sctlr_el2' = [sctlr_el2 EXCEPT ![c] = SctlrDisableValue]
    /\ Logged(c, <<"sctlr_el2", "M", SctlrDisableValue.M>>)
    /\ Goto(c, "disable_nop1")
    /\ UNCHANGED <<base, tables, mair_el2, ttbr0_el2, tcr_el2, hcr_el2, ret,
                   calls, history, after_first, builds_started, builds_done>>

\* nop(); nop();
disable_mmu_nop(c) ==
    /\ pc[c] \in {"disable_nop1", "disable_nop2"}
    /\ Logged(c, <<"nop">>)
    /\ Goto(c, IF pc[c] = "disable_nop1" THEN "disable_nop2" ELSE "disable_dsb")
    /\ UNCHANGED <<base, tables, regs, ret, calls, history, after_first,
                   builds_started, builds_done>>

\* mutant: with the barrier, the translation table base is reset as well
disable_mmu_dsb_resets_ttbr0(c) ==
    /\ pc[c] = "disable_dsb"
    /\ ttbr0_el2' = [ttbr0_el2 EXCEPT ![c] = Ttbr0Value(0)]
    /\ Logged(c, <<"dsb sy">>)
    /\ Goto(c, "disable_isb")
    /\ UNCHANGED <<base, tables, sctlr_el2, mair_el2, tcr_el2, hcr_el2, ret,
                   calls, history, after_first, builds_started, builds_done>>

\* dsb sy
disable_mmu_dsb(c) ==
    /\ pc[c] = "disable_dsb"
    /\ Logged(c, <<"dsb sy">>)
    /\ Goto(c, "disable_isb")
    /\ UNCHANGED <<base, tables, regs, ret, calls, history, after_first,
                   builds_started, builds_done>>

\* isb, and the return to the caller
disable_mmu_isb(c) ==
    /\ pc[c] = "disable_isb"
    /\ Logged(c, <<"isb">>)
    /\ Goto(c, IF ret[c] = "initialize_mmu" THEN "init_if_core" ELSE "idle")
    /\ UNCHANGED <<base, tables, regs, ret, calls, history, after_first,
                   builds_started, builds_done>>

(***************************************************************************)
(* initialize_mmu, after its call of disable_mmu has returned              *)
(***************************************************************************)
\* if core == 0 { setup_page_tables(); }
initialize_mmu_if_core(c) ==
    /\ pc[c] = "init_if_core"
    /\ IF IsMainCore(CoreArg(c))
       THEN /\ Goto(c, "setup_lvl0_0")
            /\ Logged(c, <<"setup_page_tables">>)
            /\ builds_started' = builds_started + 1
       ELSE /\ Goto(c, "init_mair")
            /\ UNCHANGED <<log, builds_started>>
    /\ UNCHANGED <<base, tables, regs, ret, calls, history, after_first,
                   builds_done>>

(***************************************************************************)
(* setup_page_tables                                                       *)
(***************************************************************************)
\* mutant: the builder zeroes the level 1 table before it fills it
setup_page_tables_lvl0_0_clears(c) ==
    /\ pc[c] = "setup_lvl0_0"
    /\ ttlb_lvl0' = [ttlb_lvl0 EXCEPT ![0] = TableDescriptor(level1_addr_1)]
    /\ ttlb_lvl1' = [k \in DOMAIN ttlb_lvl1 |-> U64(0)]
    /\ Goto(c, "setup_lvl0_1")
    /\ UNCHANGED <<base, regs, ret, calls, ghost>>

\* MMU_CFG.ttlb_lvl0[0] = 0x1 << 63 | (level1_addr_1 as u64) | 0b11
setup_page_tables_lvl0_0(c) ==
    /\ pc[c] = "setup_lvl0_0"
    /\ ttlb_lvl0' = [ttlb_lvl0 EXCEPT ![0] = TableDescriptor(level1_addr_1)]
    /\ Goto(c, "setup_lvl0_1")
    /\ UNCHANGED <<base, ttlb_lvl1, regs, ret, calls, ghost>>

\* mutant: the second table descriptor is stored one entry too far
setup_page_tables_lvl0_1_at_2(c) ==
    /\ pc[c] = "setup_lvl0_1"
    /\ ttlb_lvl0' = [ttlb_lvl0 EXCEPT ![2] = TableDescriptor(level1_addr_2)]
    /\ Goto(c, "setup_normal")
    /\ UNCHANGED <<base, ttlb_lvl1, regs, ret, calls, ghost>>

\* MMU_CFG.ttlb_lvl0[1] = 0x1 << 63 | (level1_addr_2 as u64) | 0b11
setup_page_tables_lvl0_1(c) ==
    /\ pc[c] = "setup_lvl0_1"
    /\ ttlb_lvl0' = [ttlb_lvl0 EXCEPT ![1] = TableDescriptor(level1_addr_2)]
    /\ Goto(c, "setup_normal")
    /\ UNCHANGED <<base, ttlb_lvl1, regs, ret, calls, ghost>>

\* for i in 0..504 { MMU_CFG.ttlb_lvl1[i] = (i as u64 * 0x20_0000) | 0x710 | 0b01 }
setup_page_tables_normal(c) ==
    /\ pc[c] = "setup_normal"
    /\ ttlb_lvl1' = AfterStores(ttlb_lvl1, NormalStores)
    /\ Goto(c, "setup_device")
    /\ UNCHANGED <<base, ttlb_lvl0, regs, ret, calls, ghost>>

\* for i in 504..513 { MMU_CFG.ttlb_lvl1[i] = (i as u64 * 0x20_0000) | 0x400 | 0b01 }
setup_page_tables_device(c) ==
    /\ pc[c] = "setup_device"
    /\ ttlb_lvl1' = AfterStores(ttlb_lvl1, DeviceStores)
    /\ Goto(c, "setup_dsb")
    /\ UNCHANGED <<base, ttlb_lvl0, regs, ret, calls, ghost>>

\* mutant: the TLB invalidation is issued in the place of the barrier
setup_page_tables_dsb_is_tlbi(c) ==
    /\ pc[c] = "setup_dsb"
    /\ Logged(c, <<"tlbi alle2is">>)
    /\ Goto(c, "setup_tlbi")
    /\ UNCHANGED <<base, tables, regs, ret, calls, history, after_first,
                   builds_started, builds_done>>

\* dsb ishst
setup_page_tables_dsb(c) ==
    /\ pc[c] = "setup_dsb"
    /\ Logged(c, <<"dsb ishst">>)
    /\ Goto(c, "setup_tlbi")
    /\ UNCHANGED <<base, tables, regs, ret, calls, history, after_first,
                   builds_started, builds_done>>

\* tlbi alle2is, and the return to initialize_mmu
setup_page_tables_tlbi(c) ==
    /\ pc[c] = "setup_tlbi"
    /\ Logged(c, <<"tlbi alle2is">>)
    /\ builds_done' = builds_done + 1
    /\ Goto(c, "init_mair")
    /\ UNCHANGED <<base, tables, regs, ret, calls, history, after_first,
                   builds_started>>

(***************************************************************************)
(* initialize_mmu: the register programming                                *)
(***************************************************************************)
\* mutant: translation is enabled right after the MAIR_EL2 write
initialize_mmu_mair_then_enable(c) ==
    /\ pc[c] = "init_mair"
    /\ mair_el2' = [mair_el2 EXCEPT ![c] = MairValue]
    /\ Logged(c, <<"mair_el2">>)
    /\ Goto(c, "init_sctlr")
    /\ UNCHANGED <<base, tables, sctlr_el2, ttbr0_el2, tcr_el2, hcr_el2, ret,
                   calls, history, after_first, builds_started, builds_done>>

\* mair_el2::write(...)
initialize_mmu_mair(c) ==
    /\ pc[c] = "init_mair"
    /\ mair_el2' = [mair_el2 EXCEPT ![c] = MairValue]
    /\ Logged(c, <<"mair_el2">>)
    /\ Goto(c, "init_ttbr0")
    /\ UNCHANGED <<base, tables, sctlr_el2, ttbr0_el2, tcr_el2, hcr_el2, ret,
                   calls, history, after_first, builds_started, builds_done>>

\* mutant: the base written is that of the level 1 table
initialize_mmu_ttbr0_lvl1(c) ==
    /\ pc[c] = "init_ttbr0"
    /\ LET ttlb_base == AddrLvl1(0)
       IN ttbr0_el2' = [ttbr0_el2 EXCEPT ![c] = Ttbr0Value(ttlb_base)]
    /\ Logged(c, <<"ttbr0_el2">>)
    /\ Goto(c, "init_tcr")
    /\ UNCHANGED <<base, tables, sctlr_el2, mair_el2, tcr_el2, hcr_el2, ret,
                   calls, history, after_first, builds_started, builds_done>>

\* let ttlb_base = &MMU_CFG.ttlb_lvl0[0] as u64; ttbr0_el2::write(...)
initialize_mmu_ttbr0(c) ==
    /\ pc[c] = "init_ttbr0"
    /\ LET ttlb_base == AddrLvl0(0)
       IN ttbr0_el2' = [ttbr0_el2 EXCEPT ![c] = Ttbr0Value(ttlb_base)]
    /\ Logged(c, <<"ttbr0_el2">>)
    /\ Goto(c, "init_tcr")
    /\ UNCHANGED <<base, tables, sctlr_el2, mair_el2, tcr_el2, hcr_el2, ret,
                   calls, history, after_first, builds_started, builds_done>>

\* tcr_el2::write(...)
initialize_mmu_tcr(c) ==
    /\ pc[c] = "init_tcr"
    /\ tcr_el2' = [tcr_el2 EXCEPT ![c] = TcrValue]
    /\ Logged(c, <<"tcr_el2">>)
    /\ Goto(c, "init_hcr")
    /\ UNCHANGED <<base, tables, sctlr_el2, mair_el2, ttbr0_el2, hcr_el2, ret,
                   calls, history, after_first, builds_started, builds_done>>

\* hcr_el2::write(hcr_el2::DC::DISABLE | hcr_el2::VM::DISABLE)
initialize_mmu_hcr(c) ==
    /\ pc[c] = "init_hcr"
    /\ hcr_el2' = [hcr_el2 EXCEPT ![c] = HcrValue]
    /\ Logged(c, <<"hcr_el2">>)
    /\ Goto(c, "init_sctlr")
    /\ UNCHANGED <<base, tables, sctlr_el2, mair_el2, ttbr0_el2, tcr_el2, ret,
                   calls, history, after_first, builds_started, builds_done>>

\* sctlr_el2::write(M::ENABLE | A::DISABLE | C::ENABLE | SA::DISABLE | I::DISABLE)
initialize_mmu_sctlr(c) ==
    /\ pc[c] = "init_sctlr"
    /\ sctlr_el2' = [sctlr_el2 EXCEPT ![c] = SctlrEnableValue]
    /\ Logged(c, <<"sctlr_el2", "M", SctlrEnableValue.M>>)
    /\ Goto(c, "init_nop1")
    /\ UNCHANGED <<base, tables, mair_el2, ttbr0_el2, tcr_el2, hcr_el2, ret,
                   calls, history, after_first, builds_started, builds_done>>

\* nop(); nop(); and the return
initialize_mmu_nop(c) ==
    /\ pc[c] \in {"init_nop1", "init_nop2"}
    /\ Logged(c, <<"nop">>)
    /\ Goto(c, IF pc[c] = "init_nop1" THEN "init_nop2" ELSE "idle")
    /\ after_first' = IF /\ pc[c] = "init_nop2"
                         /\ IsMainCore(CoreArg(c))
                         /\ after_first = <<>>
                      THEN tables
                      ELSE after_first
    /\ UNCHANGED <<base, tables, regs, ret, calls, history, builds_started,
                   builds_done>>

(***************************************************************************)
(* The specification: the cores run independently, in any interleaving.    *)
(***************************************************************************)
Next ==
    \E c \in Cores :
        \/ call_initialize_mmu(c)
        \/ call_disable_mmu(c)
        \/ disable_mmu_sctlr(c)
        \/ disable_mmu_nop(c)
        \/ disable_mmu_dsb(c)
        \/ disable_mmu_isb(c)
        \/ initialize_mmu_if_core(c)
        \/ setup_page_tables_lvl0_0(c)
        \/ setup_page_tables_lvl0_1(c)
        \/ setup_page_tables_normal(c)
        \/ setup_page_tables_device(c)
        \/ setup_page_tables_dsb(c)
        \/ setup_page_tables_tlbi(c)
        \/ initialize_mmu_mair(c)
        \/ initialize_mmu_ttbr0(c)
        \/ initialize_mmu_tcr(c)
        \/ initialize_mmu_hcr(c)
        \/ initialize_mmu_sctlr(c)
        \/ initialize_mmu_nop(c)

Spec == Init /\ [][Next]_vars

(***************************************************************************)
(* Properties                                                              *)
(***************************************************************************)
IsPrefix(s, t) == Len(s) <= Len(t) /\ s = SubSeq(t, 1, Len(s))

\* the steps of a disable_mmu() execution
DisableSteps ==
    << <<"sctlr_el2", "M", "DISABLE">>, <<"nop">>, <<"nop">>, <<"dsb sy">>,
       <<"isb">> >>

\* the steps of an initialize_mmu(core) execution
InitializeSteps(core) ==
    DisableSteps
    \o (IF core = 0
        THEN << <<"setup_page_tables">>, <<"dsb ishst">>, <<"tlbi alle2is">> >>
        ELSE << >>)
    \o << <<"mair_el2">>, <<"ttbr0_el2">>, <<"tcr_el2">>, <<"hcr_el2">>,
          <<"sctlr_el2", "M", "ENABLE">>, <<"nop">>, <<"nop">> >>

\* the core is inside setup_page_tables
SetupPcs ==
    {"setup_lvl0_0", "setup_lvl0_1", "setup_normal", "setup_device",
     "setup_dsb", "setup_tlbi"}

\* the next step of the core stores a descriptor into a table
TableWritePcs == {"setup_lvl0_0", "setup_lvl0_1", "setup_normal", "setup_device"}

\* the next step of the core writes MAIR_EL2, TTBR0_EL2 or TCR_EL2
RegisterWritePcs == {"init_mair", "init_ttbr0", "init_tcr"}

\* core c has returned from a call of initialize_mmu and made no call since
InitializeReturned(c) == pc[c] = "idle" /\ last_call(c) = "initialize_mmu"

\* C1: in every execution of initialize_mmu(core) the steps are, in this
\* order: the SCTLR_EL2 disable write with the rest of disable_mmu, the table
\* builder if and only if core = 0, the MAIR_EL2, TTBR0_EL2, TCR_EL2 and
\* HCR_EL2 writes, the SCTLR_EL2 write with M = ENABLE, two nops.  While the
\* call runs its steps so far are a prefix of that sequence, and when it has
\* returned they are the whole sequence.
C1_InitializeOrder ==
    \A c \in Cores :
        last_call(c) = "initialize_mmu" =>
            /\ IsPrefix(log[c], InitializeSteps(c))
            /\ (pc[c] = "idle" => log[c] = InitializeSteps(c))

\* C1 witness: core 0 and another core have both completed initialize_mmu
C1_Witness == InitializeReturned(0) /\ InitializeReturned(1)

\* C2: whenever a core is about to store a table descriptor or to write
\* MAIR_EL2, TTBR0_EL2 or TCR_EL2, the M bit of its SCTLR_EL2 is off.
C2_TranslationOffAtWrites ==
    \A c \in Cores :
        pc[c] \in TableWritePcs \cup RegisterWritePcs =>
            sctlr_el2[c].M = "DISABLE"

\* C2 witness: core 0 stores descriptors in a second initialize_mmu, called
\* right after the first one had enabled translation
C2_Witness ==
    /\ history[0] = <<"initialize_mmu", "initialize_mmu">>
    /\ pc[0] = "setup_normal"

\* C3: only a core with id 0 is ever inside the table builder; a step of a
\* core with another id leaves every entry of both tables unchanged; and when
\* initialize_mmu returns on such a core its registers are programmed.
C3_OtherCoresSkipTables ==
    /\ [](\A c \in Cores : pc[c] \in SetupPcs => c = 0)
    /\ [][\A c \in Cores :
            (c # 0 /\ pc'[c] # pc[c]) => UNCHANGED <<ttlb_lvl0, ttlb_lvl1>>]_vars
    /\ [](\A c \in Cores :
            (c # 0 /\ InitializeReturned(c)) =>
                /\ mair_el2[c][0] = "NGNRNE" /\ mair_el2[c][4] = "NORM"
                /\ ttbr0_el2[c].baddr = base
                /\ tcr_el2[c].T0SZ = 25
                /\ hcr_el2[c].VM = "DISABLE"
                /\ sctlr_el2[c].M = "ENABLE")

\* C3 witness: core 1 has completed initialize_mmu and the tables are still
\* all zero
C3_Witness ==
    /\ InitializeReturned(1)
    /\ \A k \in DOMAIN ttlb_lvl0 : ttlb_lvl0[k] = {}
    /\ \A k \in DOMAIN ttlb_lvl1 : ttlb_lvl1[k] = {}

(***************************************************************************)
(* Reading a descriptor as the table walker does (4KB granule).            *)
(***************************************************************************)
\* the natural number the u64 v holds (v below 2^31)
RECURSIVE ToNat(_)
ToNat(v) ==
    IF v = {}
    THEN 0
    ELSE LET b == CHOOSE x \in v : TRUE
         IN 2 ^ b + ToNat(v \ {b})

\* bits 1:0 = 0b01: a valid block
IsBlock(d) == Masked(d, 1, 0) = {0}
\* bits 1:0 = 0b11: a valid table pointer
IsTable(d) == Masked(d, 1, 0) = {0, 1}
\* bits 47:21 of a level 1 block: the output address, as a natural number
\* (-1 for an address of 2^31 or more, which no entry of this table holds)
OutputAddress(d) ==
    IF \A x \in Field(d, 47, 21) : x <= 9
    THEN ToNat(Field(d, 47, 21)) * 2097152
    ELSE -1
\* bits 47:12 of a level 0 entry: the address of the next table
NextTableAddress(d) == Masked(d, 47, 12)
\* AF = 1 << 10
AccessFlag(d) == 10 \in d
\* SH: bits 9:8
Shareability(d) == Field(d, 9, 8)
\* MAIR index: bits 4:2
AttrIndex(d) == Field(d, 4, 2)

\* some execution of setup_page_tables has completed
TablesBuilt == builds_done >= 1

\* setup_page_tables has just returned to initialize_mmu on core 0
JustBuilt == pc[0] = "init_mair"

\* once an execution of setup_page_tables has completed no step changes an
\* entry of the level 1 table
Lvl1Frozen == [][TablesBuilt => ttlb_lvl1' = ttlb_lvl1]_vars

\* the bits of a block descriptor that hold its type (1:0), attribute index
\* (4:2), shareability (9:8), access flag (10) and output address (47:21)
BlockFields == (0..4) \cup (8..10) \cup (21..47)

\* for every i in [0, 504): a valid block (0b01) with output address
\* i * 0x20_0000, access flag (1 << 10), shareability 3 (3 << 8) and
\* attribute index 4 (4 << 2)
NormalBlocksClaimed ==
    { <<k, U64(k * 2097152) \cup U64(1024) \cup U64(768) \cup U64(16) \cup U64(1)>> :
        k \in 0..503 }

\* C4: when the table builder returns, every level 1 entry i in [0, 504) is a
\* valid block descriptor (low bits 0b01) with output address i * 0x20_0000,
\* access flag set, shareability 3 (inner shareable) and attribute index 4:
\* these fields of the entry are exactly the claimed ones.  No later step
\* changes an entry, so this holds ever after.
C4_NormalRange ==
    /\ [](JustBuilt =>
            \A k \in 0..503 :
                <<k, ttlb_lvl1[k] \cap BlockFields>> \in NormalBlocksClaimed)
    /\ Lvl1Frozen

\* C4 witness: the builder has returned and the last normal entry decodes to
\* the claimed fields
C4_Witness ==
    /\ JustBuilt
    /\ IsBlock(ttlb_lvl1[503])
    /\ OutputAddress(ttlb_lvl1[503]) = 503 * 2097152
    /\ AccessFlag(ttlb_lvl1[503])
    /\ Shareability(ttlb_lvl1[503]) = U64(3)
    /\ AttrIndex(ttlb_lvl1[503]) = U64(4)

\* C5: after the table builder has run, every level 1 entry i in [504, 513)
\* is a valid block descriptor (low bits 0b01) with output address
\* i * 0x20_0000, access flag set, shareability 0 (non-shareable) and
\* attribute index 0.
C5_DeviceRange ==
    TablesBuilt =>
        \A k \in 504..512 :
            /\ IsBlock(ttlb_lvl1[k])
            /\ OutputAddress(ttlb_lvl1[k]) = k * 2097152
            /\ AccessFlag(ttlb_lvl1[k])
            /\ Shareability(ttlb_lvl1[k]) = {}
            /\ AttrIndex(ttlb_lvl1[k]) = {}

\* C5 witness: the builder has run and the last device entry is written
C5_Witness == TablesBuilt /\ ttlb_lvl1[512] # {} /\ pc[0] = "init_ttbr0"

\* C6: after the table builder has run, level 0 entries 0 and 1 are table
\* descriptors (low bits 0b11), have bit 63 set, and their address field
\* (bits 47:12) is exactly the address of ttlb_lvl1[0], respectively of
\* ttlb_lvl1[512]; MMU_CFG is 4096-aligned and ttlb_lvl1 follows the 512
\* entries of ttlb_lvl0.
C6_LevelZeroEntries ==
    /\ base % 4096 = 0
    /\ TablesBuilt =>
            /\ IsTable(ttlb_lvl0[0]) /\ 63 \in ttlb_lvl0[0]
            /\ NextTableAddress(ttlb_lvl0[0]) = U64(base + 4096)
            /\ IsTable(ttlb_lvl0[1]) /\ 63 \in ttlb_lvl0[1]
            /\ NextTableAddress(ttlb_lvl0[1]) = U64(base + 4096 + 8 * 512)

\* C6 witness: the builder has run and both level 0 entries are written
C6_Witness ==
    TablesBuilt /\ ttlb_lvl0[0] # {} /\ ttlb_lvl0[1] # {} /\ pc[0] = "init_tcr"

(***************************************************************************)
(* The table walk: level 0 index from bits 38:30 of the address, level 1   *)
(* index from bits 29:21, the level 1 entry read from memory at the        *)
(* address the level 0 entry gives.                                        *)
(***************************************************************************)
\* the u64 stored at a physical address: <<value>>, or <<>> when the address
\* is not that of an entry of MMU_CFG
MemoryRead(addr) ==
    IF addr >= AddrLvl0(0) /\ addr < AddrLvl0(Lvl0Len)
       /\ (addr - AddrLvl0(0)) % EntrySize = 0
    THEN <<ttlb_lvl0[(addr - AddrLvl0(0)) \div EntrySize]>>
    ELSE IF addr >= AddrLvl1(0) /\ addr < AddrLvl1(Lvl1Len)
            /\ (addr - AddrLvl1(0)) % EntrySize = 0
         THEN <<ttlb_lvl1[(addr - AddrLvl1(0)) \div EntrySize]>>
         ELSE <<>>

\* the first stage of the walk for address a: <<address of the level 1
\* table>>, or <<>> when the level 0 entry is no table pointer
WalkLevel0(a) ==
    LET d0 == ttlb_lvl0[a \div 1073741824]
    IN IF IsTable(d0) /\ \A x \in NextTableAddress(d0) : x <= 30
       THEN <<ToNat(NextTableAddress(d0))>>
       ELSE <<>>

\* the second stage: the level 1 descriptor read for address a from the
\* table at address table1: <<descriptor>>, or <<>> outside MMU_CFG
WalkLevel1(table1, a) == MemoryRead(table1 + 8 * ((a \div 2097152) % 512))

\* the level 1 descriptor the walk for address a ends at, or <<>>
Walk(a) ==
    LET t == WalkLevel0(a)
    IN IF t = <<>> THEN <<>> ELSE WalkLevel1(t[1], a)

\* the level 1 entries that are valid blocks
ValidBlocks == { k \in DOMAIN ttlb_lvl1 : IsBlock(ttlb_lvl1[k]) }

\* for every block index k: a valid block (0b01) with output address
\* k * 0x20_0000
IdentityBlocksClaimed == { <<k, U64(k * 2097152) \cup U64(1)>> : k \in 0..512 }

\* C7: when the table builder returns, the walk for every 2MB-aligned address
\* a = k * 0x20_0000 in [0, 513 * 0x20_0000) (level 0 index g = a >> 30,
\* level 1 index (a >> 21) mod 512 in the table the level 0 entry points to)
\* ends at a valid block descriptor whose output address is a, and no two
\* valid level 1 descriptors have the same output address; no later step
\* changes an entry of either table.
C7_IdentityWalk ==
    /\ [](JustBuilt =>
            /\ \A g \in 0..1 :
                    LET t == WalkLevel0(g * 1073741824)
                    IN /\ t # <<>>
                       /\ \A k \in { x \in 0..512 : x \div 512 = g } :
                              LET w == WalkLevel1(t[1], k * 2097152)
                              IN /\ w # <<>>
                                 /\ <<k, w[1] \cap ((0..1) \cup (21..47))>>
                                        \in IdentityBlocksClaimed
            /\ Cardinality({ Masked(ttlb_lvl1[k], 47, 21) : k \in ValidBlocks })
                   = Cardinality(ValidBlocks))
    /\ [][TablesBuilt => UNCHANGED <<ttlb_lvl0, ttlb_lvl1>>]_vars

\* C7 witness: the builder has returned and the walk for 0x4000_0000, the
\* one address that goes through level 0 entry 1, ends at a block
C7_Witness ==
    /\ JustBuilt
    /\ Walk(1073741824) # <<>>
    /\ IsBlock(Walk(1073741824)[1])
    /\ OutputAddress(Walk(1073741824)[1]) = 1073741824

\* the descriptor carries the normal profile (attribute index 4,
\* shareability 3) / the device profile (attribute index 0, shareability 0)
IsNormalProfile(d) == d \cap ((2..4) \cup (8..9)) = {4, 8, 9}
IsDeviceProfile(d) == d \cap ((2..4) \cup (8..9)) = {}

\* the output address fields (bits 47:21) of the 2MB blocks below 0x3F00_0000
BelowBoundary == { U64(a) : a \in { k * 2097152 : k \in 0..503 } }

\* 504 * 0x20_0000 is 0x3F00_0000, and the fields in BelowBoundary are the
\* addresses below it
BoundaryIs3F000000 ==
    /\ 504 * 2097152 = 1056964608
    /\ \A a \in BelowBoundary : ToNat(a) < 1056964608
    /\ ToNat(U64(1056964608)) = 1056964608 /\ U64(1056964608) \notin BelowBoundary

\* C8: 504 * 0x20_0000 is 0x3F00_0000; when the table builder returns, every
\* level 1 descriptor with a block address below it carries the normal
\* profile and every one with a block address at or above it the device
\* profile, and no normal entry follows a device entry; no later step changes
\* an entry.
C8_Boundary ==
    /\ [](JustBuilt =>
                /\ BoundaryIs3F000000
                /\ \A k \in DOMAIN ttlb_lvl1 :
                        IF Masked(ttlb_lvl1[k], 47, 21) \in BelowBoundary
                        THEN IsNormalProfile(ttlb_lvl1[k])
                        ELSE IsDeviceProfile(ttlb_lvl1[k])
                /\ \A k \in 0..511 :
                        IsDeviceProfile(ttlb_lvl1[k])
                            => ~IsNormalProfile(ttlb_lvl1[k + 1]))
    /\ [][TablesBuilt => ttlb_lvl1' = ttlb_lvl1]_vars

\* C8 witness: the builder has returned, entry 503 is normal and entry 504
\* is device
C8_Witness ==
    /\ JustBuilt
    /\ IsNormalProfile(ttlb_lvl1[503])
    /\ OutputAddress(ttlb_lvl1[503]) = 1056964608 - 2097152
    /\ IsDeviceProfile(ttlb_lvl1[504])
    /\ OutputAddress(ttlb_lvl1[504]) = 1056964608

\* the number of initialize_mmu calls in a history of calls
InitializeCalls(h) == Cardinality({ j \in 1..Len(h) : h[j] = "initialize_mmu" })

\* C9 as stated: the table builder executes at most once system-wide and
\* only on the designated core, and the tables are never modified after
\* that execution.
C9_AtMostOnce ==
    /\ [](builds_started <= 1)
    /\ [](\A c \in Cores : pc[c] \in SetupPcs => c = 0)
    /\ [][TablesBuilt => UNCHANGED <<ttlb_lvl0, ttlb_lvl1>>]_vars

\* C9 amended: the table builder executes once in every initialize_mmu call
\* of core 0, so as often as core 0 calls it, and never on another core;
\* every execution stores the same values, so once the first one has
\* completed no step changes an entry of either table.
C9_OncePerCall ==
    /\ [](\A c \in Cores : pc[c] \in SetupPcs => c = 0)
    /\ [](builds_started <= InitializeCalls(history[0]))
    /\ [](pc[0] = "idle" =>
            /\ builds_started = InitializeCalls(history[0])
            /\ builds_done = builds_started)
    /\ [][TablesBuilt => UNCHANGED <<ttlb_lvl0, ttlb_lvl1>>]_vars

\* C9 witness: the table builder has completed a second execution
C9_Witness == builds_done = 2 /\ pc[0] = "idle"

\* C10: whenever initialize_mmu has returned on core 0, the tables are,
\* entry for entry, as the first initialize_mmu(0) left them; so they are
\* after initialize_mmu(0); disable_mmu(); initialize_mmu(0).
C10_RoundTrip ==
    (InitializeReturned(0) /\ after_first # <<>>) =>
        <<ttlb_lvl0, ttlb_lvl1>> = after_first

\* C10 witness: core 0 has run initialize_mmu, disable_mmu, initialize_mmu
C10_Witness ==
    /\ history[0] = <<"initialize_mmu", "disable_mmu", "initialize_mmu">>
    /\ pc[0] = "idle"
    /\ after_first # <<>>
    /\ ttlb_lvl1[512] # {}

(***************************************************************************)
(* disable_mmu as an operation of its own                                  *)
(***************************************************************************)
\* the calls of h end with two successive calls of disable_mmu
EndsWithTwoDisables(h) ==
    /\ Len(h) >= 2
    /\ h[Len(h)] = "disable_mmu"
    /\ h[Len(h) - 1] = "disable_mmu"

\* C11: disable_mmu is idempotent: from the return of a disable_mmu call up
\* to the return of a disable_mmu call that follows it directly on the same
\* core, no step changes the core's SCTLR_EL2, MAIR_EL2, TTBR0_EL2, TCR_EL2
\* or HCR_EL2 (steps of other cores never change them), so the registers
\* after two successive calls are those after one; and after either call
\* SCTLR_EL2 holds the value disable_mmu writes.
C11_DisableIdempotent ==
    /\ [][\A c \in Cores :
            ((last_call(c) = "disable_mmu" /\ pc[c] = "idle"
                /\ (pc'[c] = "idle" \/ EndsWithTwoDisables(history'[c])))
             \/ (EndsWithTwoDisables(history[c]) /\ history'[c] = history[c]))
            => /\ sctlr_el2'[c] = sctlr_el2[c]
               /\ mair_el2'[c] = mair_el2[c]
               /\ ttbr0_el2'[c] = ttbr0_el2[c]
               /\ tcr_el2'[c] = tcr_el2[c]
               /\ hcr_el2'[c] = hcr_el2[c]]_vars
    /\ [](\A c \in Cores :
            (last_call(c) = "disable_mmu" /\ pc[c] = "idle")
                => sctlr_el2[c] = SctlrValue([M |-> "DISABLE", C |-> "DISABLE",
                                              I |-> "DISABLE"]))

\* C11 witness: core 0 has returned from the second of two successive
\* disable_mmu calls, made after initialize_mmu had programmed its registers
C11_Witness ==
    /\ history[0] = <<"initialize_mmu", "disable_mmu", "disable_mmu">>
    /\ pc[0] = "idle"
    /\ mair_el2[0] = MairValue

(***************************************************************************)
(* Several cores running initialize_mmu                                    *)
(***************************************************************************)
\* core c has written SCTLR_EL2 with M = ENABLE in its current or last call
HasEnabled(c) ==
    \E j \in 1..Len(log[c]) : log[c][j] = <<"sctlr_el2", "M", "ENABLE">>

\* every call made so far is a call of initialize_mmu, and core 0 has made one
OnlyInitializeCalls ==
    /\ \A c \in Cores :
          \A j \in 1..Len(history[c]) : history[c][j] = "initialize_mmu"
    /\ history[0] # <<>>

\* C12 as stated: when the cores run initialize_mmu in any interleaving, a
\* core other than core 0 has written SCTLR_EL2 with M = ENABLE only when
\* core 0 has completed the table builder (with its barrier and its TLB
\* invalidation).
C12_OthersEnableAfterBuild ==
    \A c \in Cores \ {0} :
        (OnlyInitializeCalls /\ HasEnabled(c)) => builds_done >= 1

\* C12 amended: the code orders only core 0's own enable write after the
\* table builder: when core 0 is about to write, or has written, SCTLR_EL2
\* with M = ENABLE in an initialize_mmu call, the table builder of that call
\* has completed, with its barrier and TLB invalidation.  The enable write
\* of another core is not ordered against the builder by this code; but a
\* completed build is never undone and the tables never change after it, so
\* an enable write made after the completion finds the complete tables.
C12_OnlyOwnEnableOrdered ==
    /\ [](\A c \in Cores :
            (c = 0 /\ last_call(c) = "initialize_mmu"
                /\ (pc[c] = "init_sctlr" \/ HasEnabled(c)))
            => /\ builds_done = InitializeCalls(history[c])
               /\ builds_done >= 1
               /\ Len(log[c]) >= 8
               /\ log[c][7] = <<"dsb ishst">>
               /\ log[c][8] = <<"tlbi alle2is">>)
    /\ [][builds_done' >= builds_done]_vars
    /\ [][TablesBuilt => UNCHANGED <<ttlb_lvl0, ttlb_lvl1>>]_vars

\* C12 witness: core 0 and core 1 both run initialize_mmu, core 1 has
\* enabled translation and core 0 is still storing level 1 descriptors
C12_Witness ==
    /\ OnlyInitializeCalls
    /\ HasEnabled(1)
    /\ pc[0] = "setup_normal"
    /\ builds_done = 0

(***************************************************************************)
(* The registers after a call                                              *)
(***************************************************************************)
\* core c has made the TTBR0_EL2 write of its current or last call
HasWrittenTtbr0(c) ==
    \E j \in 1..Len(log[c]) : log[c][j] = <<"ttbr0_el2">>

\* C13: once initialize_mmu has written TTBR0_EL2 on a core, and so when the
\* call has completed, the base address field of the core's TTBR0_EL2 is the
\* address of MMU_CFG, which is 4096-aligned and is where ttlb_lvl0[0] is
\* stored; the address of MMU_CFG never changes, so the value is the same on
\* every core and in every call.
C13_TableBase ==
    /\ [](\A c \in Cores :
            HasWrittenTtbr0(c) =>
                /\ ttbr0_el2[c].baddr = base
                /\ ttbr0_el2[c].baddr % 4096 = 0
                /\ MemoryRead(ttbr0_el2[c].baddr) = <<ttlb_lvl0[0]>>)
    /\ [](\A c, d \in Cores :
            (HasWrittenTtbr0(c) /\ HasWrittenTtbr0(d))
                => ttbr0_el2[c] = ttbr0_el2[d])
    /\ [][base' = base]_vars

\* C13 witness: core 0 has completed two calls of initialize_mmu and core 1
\* one, and their TTBR0_EL2 hold the same non-zero base
C13_Witness ==
    /\ history[0] = <<"initialize_mmu", "initialize_mmu">>
    /\ InitializeReturned(0)
    /\ InitializeReturned(1)
    /\ ttbr0_el2[0].baddr = ttbr0_el2[1].baddr
    /\ ttbr0_el2[0].baddr > 0

\* core c has returned from its last call, which was a call of disable_mmu
DisableReturned(c) == pc[c] = "idle" /\ last_call(c) = "disable_mmu"

\* C14: when a core has returned from a call, its SCTLR_EL2 is determined by
\* that call alone, whatever the calls before it and the state at entry:
\* after initialize_mmu M and C are enabled and A, SA and I disabled; after
\* disable_mmu M, C and I are disabled; and two cores whose last call was
\* the same function hold the same SCTLR_EL2.
C14_LastCallDecides ==
    /\ \A c \in Cores :
          /\ InitializeReturned(c) =>
                /\ sctlr_el2[c].M = "ENABLE" /\ sctlr_el2[c].C = "ENABLE"
                /\ sctlr_el2[c].A = "DISABLE" /\ sctlr_el2[c].SA = "DISABLE"
                /\ sctlr_el2[c].I = "DISABLE"
          /\ DisableReturned(c) =>
                /\ sctlr_el2[c].M = "DISABLE" /\ sctlr_el2[c].C = "DISABLE"
                /\ sctlr_el2[c].I = "DISABLE"
    /\ \A c, d \in Cores :
          (pc[c] = "idle" /\ pc[d] = "idle" /\ last_call(c) = last_call(d)
              /\ last_call(c) # "none")
          => sctlr_el2[c] = sctlr_el2[d]

\* C14 witness: core 0 has called initialize_mmu and then disable_mmu, core 1
\* only initialize_mmu; translation is off on core 0 and on on core 1
C14_Witness ==
    /\ history[0] = <<"initialize_mmu", "disable_mmu">>
    /\ DisableReturned(0)
    /\ InitializeReturned(1)
    /\ sctlr_el2[0].M = "DISABLE"
    /\ sctlr_el2[1].M = "ENABLE"

\* the core is inside disable_mmu, after its SCTLR_EL2 write
AfterDisableWritePcs == {"disable_nop1", "disable_nop2", "disable_dsb", "disable_isb"}

\* the first steps of the current or last call of core c: at most five
FirstSteps(c) ==
    SubSeq(log[c], 1, IF Len(log[c]) < 5 THEN Len(log[c]) ELSE 5)

\* C15: every execution of disable_mmu (called directly or as the first
\* statement of initialize_mmu) is: one SCTLR_EL2 write, two nops, dsb sy,
\* isb, in this order.  The write is one step that leaves M, C and I all
\* off, whatever they were; no other step of disable_mmu changes SCTLR_EL2,
\* so there is no state in which only some of the three are off.
C15_DisableSequence ==
    /\ [](\A c \in Cores :
            /\ last_call(c) # "none" => IsPrefix(FirstSteps(c), DisableSteps)
            /\ DisableReturned(c) => log[c] = DisableSteps
            /\ pc[c] \in AfterDisableWritePcs =>
                  /\ sctlr_el2[c].M = "DISABLE"
                  /\ sctlr_el2[c].C = "DISABLE"
                  /\ sctlr_el2[c].I = "DISABLE")
    /\ [][\A c \in Cores :
            /\ (pc[c] = "disable_sctlr" /\ pc'[c] # pc[c]) =>
                  /\ pc'[c] = "disable_nop1"
                  /\ sctlr_el2'[c].M = "DISABLE"
                  /\ sctlr_el2'[c].C = "DISABLE"
                  /\ sctlr_el2'[c].I = "DISABLE"
            /\ pc[c] \in AfterDisableWritePcs => sctlr_el2'[c] = sctlr_el2[c]]_vars

\* C15 witness: core 0 has completed a disable_mmu call that it entered with
\* translation and the data cache on, left on by initialize_mmu
C15_Witness ==
    /\ history[0] = <<"initialize_mmu", "disable_mmu">>
    /\ DisableReturned(0)
    /\ log[0] = DisableSteps
    /\ sctlr_el2[0].C = "DISABLE"

\* the core is inside disable_mmu
DisablePcs == {"disable_sctlr"} \cup AfterDisableWritePcs

\* C16: disable_mmu can be called whenever the core is not inside a call,
\* also before any initialize_mmu, and then runs to its return: each of its
\* steps can be taken.  A step of disable_mmu, and the call itself, leaves
\* every entry of both tables and MAIR_EL2, TTBR0_EL2, TCR_EL2 and HCR_EL2
\* unchanged; only SCTLR_EL2 is written.
C16_DisableFrame ==
    /\ [](\A c \in Cores :
            /\ (pc[c] = "idle" /\ calls < MaxCalls) => ENABLED call_disable_mmu(c)
            /\ pc[c] \in DisablePcs =>
                  ENABLED (\/ disable_mmu_sctlr(c) \/ disable_mmu_nop(c)
                           \/ disable_mmu_dsb(c) \/ disable_mmu_isb(c)))
    /\ [][\A c \in Cores :
            ((pc[c] \in DisablePcs \/ pc'[c] = "disable_sctlr")
                /\ pc'[c] # pc[c])
            => /\ UNCHANGED <<ttlb_lvl0, ttlb_lvl1>>
               /\ UNCHANGED <<mair_el2, ttbr0_el2, tcr_el2, hcr_el2>>
               /\ \A d \in Cores \ {c} : sctlr_el2'[d] = sctlr_el2[d]]_vars

\* C16 witness: core 1 has completed a disable_mmu called before any
\* initialize_mmu, with its other registers as at entry, and core 0 a
\* disable_mmu called after initialize_mmu, with tables and registers kept
C16_Witness ==
    /\ history[1] = <<"disable_mmu">> /\ DisableReturned(1)
    /\ mair_el2[1] = MairAtEntry /\ ttbr0_el2[1] = Ttbr0AtEntry
    /\ history[0] = <<"initialize_mmu", "disable_mmu">> /\ DisableReturned(0)
    /\ mair_el2[0] = MairValue /\ ttbr0_el2[0].baddr = base
    /\ tcr_el2[0] = TcrValue /\ hcr_el2[0] = HcrValue
    /\ IsTable(ttlb_lvl0[1]) /\ IsBlock(ttlb_lvl1[512])

(***************************************************************************)
(* The barrier and the TLB invalidation of setup_page_tables               *)
(***************************************************************************)
\* the positions of step e among the steps of the current call of core c
Positions(c, e) == { j \in 1..Len(log[c]) : log[c][j] = e }

\* step e has been made in the current call of core c
Issued(c, e) == Positions(c, e) # {}

\* the steps the barrier and the invalidation have to precede
GuardedSteps ==
    { <<"mair_el2">>, <<"ttbr0_el2">>, <<"tcr_el2">>,
      <<"sctlr_el2", "M", "ENABLE">> }

\* C17: in every initialize_mmu call of core 0: while a descriptor store is
\* still to come neither dsb ishst nor tlbi alle2is has been issued, and a
\* step that changes a table entry is such a store; dsb ishst is issued
\* before tlbi alle2is, directly; and when MAIR_EL2, TTBR0_EL2, TCR_EL2 or
\* the SCTLR_EL2 enable is about to be written both have been issued, each
\* once, before every such write, with translation off on core 0 until the
\* enable write.
C17_BarrierAfterStores ==
    /\ [](pc[0] \in TableWritePcs =>
            ~Issued(0, <<"dsb ishst">>) /\ ~Issued(0, <<"tlbi alle2is">>))
    /\ [](pc[0] = "setup_tlbi" =>
            Issued(0, <<"dsb ishst">>) /\ ~Issued(0, <<"tlbi alle2is">>))
    /\ [](pc[0] \in RegisterWritePcs \cup {"init_hcr", "init_sctlr"} =>
            /\ sctlr_el2[0].M = "DISABLE"
            /\ \E j \in 1..(Len(log[0]) - 1) :
                  /\ Positions(0, <<"dsb ishst">>) = {j}
                  /\ Positions(0, <<"tlbi alle2is">>) = {j + 1}
                  /\ \A g \in GuardedSteps :
                        \A i \in Positions(0, g) : i > j + 1)
    /\ [](last_call(0) = "initialize_mmu" /\ Issued(0, <<"sctlr_el2", "M", "ENABLE">>)
            => \E j \in Positions(0, <<"tlbi alle2is">>) :
                  \A i \in Positions(0, <<"sctlr_el2", "M", "ENABLE">>) : i > j)
    /\ [][<<ttlb_lvl0, ttlb_lvl1>>' # <<ttlb_lvl0, ttlb_lvl1>> =>
            /\ pc[0] \in TableWritePcs
            /\ ~Issued(0, <<"dsb ishst">>)]_vars

\* C17 witness: core 0 has stored the last descriptor, issued the barrier
\* and the invalidation and is about to enable translation
C17_Witness ==
    /\ pc[0] = "init_sctlr"
    /\ IsBlock(ttlb_lvl1[512])
    /\ Issued(0, <<"dsb ishst">>)
    /\ Issued(0, <<"tlbi alle2is">>)
    /\ Issued(0, <<"tcr_el2">>)
    /\ sctlr_el2[0].M = "DISABLE"

(***************************************************************************)
(* Attribute indices and their bindings                                    *)
(***************************************************************************)
\* C18: when a core is about to write SCTLR_EL2 with M = ENABLE, every valid
\* block descriptor of the level 1 table has attribute index 4 or 0 (bits
\* 4:2 are 0b100 or 0b000): index 4 for the entries of normal memory, below
\* 504, and the core's MAIR_EL2 binds 4 to NORM; index 0 for the entries of
\* device memory, from 504 on, and the core's MAIR_EL2 binds 0 to nGnRnE.
C18_IndicesBound ==
    \A c \in Cores :
        pc[c] = "init_sctlr" =>
            \A k \in DOMAIN ttlb_lvl1 :
                IsBlock(ttlb_lvl1[k]) =>
                    IF k < 504
                    THEN /\ ttlb_lvl1[k] \cap (2..4) = {4}
                         /\ mair_el2[c][4] = "NORM"
                    ELSE /\ ttlb_lvl1[k] \cap (2..4) = {}
                         /\ mair_el2[c][0] = "NGNRNE"

\* C18 witness: core 1 is about to enable translation with the level 1
\* table complete, its entries referring to indices 4 and 0
C18_Witness ==
    /\ pc[1] = "init_sctlr"
    /\ TablesBuilt
    /\ AttrIndex(ttlb_lvl1[503]) = U64(4) /\ IsBlock(ttlb_lvl1[503])
    /\ AttrIndex(ttlb_lvl1[504]) = U64(0) /\ IsBlock(ttlb_lvl1[504])
    /\ mair_el2[1][4] = "NORM" /\ mair_el2[1][0] = "NGNRNE"

ZeroLvl0 == [k \in 0..511 |-> {}]
ZeroLvl1 == [k \in 0..512 |-> {}]

\* C20: in every reachable state the level 0 table is all zero except,
\* possibly, at indices 0 and 1, so its entries 2 to 511 are zero
\* (unmapped), and no step changes one of them; and as long as core 0 has
\* not entered the table builder, so before the first initialize_mmu(0),
\* every entry of both tables is zero.
C20_UnusedLevelZero ==
    /\ [](ttlb_lvl0 = [ZeroLvl0 EXCEPT ![0] = ttlb_lvl0[0], ![1] = ttlb_lvl0[1]])
    /\ [](ttlb_lvl0[2] = {} /\ ttlb_lvl0[511] = {})
    /\ [](builds_started = 0 => ttlb_lvl0 = ZeroLvl0 /\ ttlb_lvl1 = ZeroLvl1)
    /\ [][ttlb_lvl0' # ttlb_lvl0 =>
            \E k \in {0, 1} : ttlb_lvl0' = [ttlb_lvl0 EXCEPT ![k] = ttlb_lvl0'[k]]]_vars

\* C20 witness: core 0 has run initialize_mmu, disable_mmu, initialize_mmu,
\* level 0 entries 0 and 1 are table descriptors and entry 2 is zero
C20_Witness ==
    /\ history[0] = <<"initialize_mmu", "disable_mmu", "initialize_mmu">>
    /\ InitializeReturned(0)
    /\ IsTable(ttlb_lvl0[0]) /\ IsTable(ttlb_lvl0[1])
    /\ ttlb_lvl0[2] = {}

=============================================================================
